---- MODULE Spec2Model ----
(***************************************************************************)
(* Model of src/core_affinity.c: the four build-time backends of           *)
(* moonbit_get_affinity_mask / moonbit_set_affinity_mask together with the  *)
(* operating-system affinity records the backends read and write.           *)
(*                                                                         *)
(* A uint64_t mask is the set of its set bit indices, a subset of 0..63.    *)
(* A native CPU set (cpu_set_t, DWORD_PTR) is the set of CPU indices in it. *)
(* Environment assumptions: CPUs 0..ncpu-1 are online; ncpu never exceeds   *)
(* CPU_SETSIZE; a Windows machine has one processor group (ncpu <= 64).     *)
(***************************************************************************)
EXTENDS Integers, FiniteSets, Sequences

VARIABLES platform, ncpu, procCpus, threads, thrAff, macTag, last, prev, everBound

vars == <<platform, ncpu, procCpus, threads, thrAff, macTag, last, prev, everBound>>

(* ---------------------------------------------------------------- bounds *)

\* Small machines have 1..MaxCpu logical CPUs; low probe bits are 0..MaxCpu-1.
MaxCpu == 2

(* ------------------------------------------------------------- constants *)

\* Width of the affinity mask (uint64_t) and bound of every bit loop.
MaskBits == 64

\* glibc's CPU_SETSIZE, the capacity of cpu_set_t.
CPU_SETSIZE == 1024

\* THREAD_AFFINITY_TAG_NULL, the tag of a thread no policy was applied to.
TagNull == 0

Platforms == {"windows", "linux", "mac_intel", "mac_arm", "other"}

MainThread == "main"

WorkerThread == "worker"

(* ----------------------------------------------------------- environment *)

BitIdx == 0 .. (MaskBits - 1)

\* CPU indices the model distinguishes: the low ones, the last representable
\* one (63) and the first unrepresentable one (64).
Probe == (0 .. (MaxCpu - 1)) \cup {MaskBits - 1, MaskBits}

\* Masks a caller passes to moonbit_set_affinity_mask.
InputMasks == SUBSET (Probe \cap BitIdx)

Online == 0 .. (ncpu - 1)

NCpuChoices(p) ==
    IF p = "windows" THEN (1 .. MaxCpu) \cup {MaskBits}
    ELSE (1 .. MaxCpu) \cup {MaskBits, MaskBits + 1}

\* The CPU sets a record may start with: all of S, or a non-empty probe subset.
CpuSetChoices(S) == {S} \cup ((SUBSET (S \cap Probe)) \ {{}})

NoCall == [op |-> "none", arg |-> {}, ok |-> FALSE, mask |-> {}, reqs |-> <<>>]

(* ------------------------------------------------------- Windows backend *)

\* (DWORD_PTR)mask and (uint64_t)process_affinity_mask on a 64-bit build.
DWORD_PTR_BITS == 64

ToDwordPtr(mask) == {i \in mask : i < DWORD_PTR_BITS}

FromDwordPtr(m) == {i \in m : i \in BitIdx}

\* GetProcessAffinityMask(GetCurrentProcess(), ...): the process mask.
GetProcessAffinityMask == [ok |-> TRUE, process |-> procCpus, system |-> Online]

\* SetThreadAffinityMask(GetCurrentThread(), m): the previous thread mask, or
\* 0 when m is empty or names a processor outside the process affinity mask.
SetThreadAffinityMask(t, m) ==
    IF m # {} /\ m \subseteq procCpus
    THEN [prevMask |-> thrAff[t], aff |-> m]
    ELSE [prevMask |-> {}, aff |-> thrAff[t]]

WinGetAffinityMask ==
    LET r == GetProcessAffinityMask
    IN  IF r.ok THEN FromDwordPtr(r.process) ELSE {}

WinSetAffinityMaskLate(t, mask) ==
    LET r == SetThreadAffinityMask(t, ToDwordPtr(mask))
    IN  [ok |-> r.prevMask = ToDwordPtr(mask) /\ r.prevMask # {}, aff |-> r.aff]

WinSetAffinityMask(t, mask) ==
    LET r == SetThreadAffinityMask(t, ToDwordPtr(mask))
    IN  [ok |-> r.prevMask # {}, aff |-> r.aff]

(* --------------------------------------------------------- Linux backend *)

\* pid 0 names the calling thread.
SchedTargetMain(t) == MainThread

SchedTarget(t) == t

\* sched_getaffinity(0, sizeof(cpu_set_t), &mask): fails when the kernel's
\* CPU mask does not fit in cpu_set_t.
sched_getaffinity(t) ==
    IF ncpu <= CPU_SETSIZE
    THEN [ok |-> TRUE, set |-> thrAff[SchedTarget(t)] \cap Online]
    ELSE [ok |-> FALSE, set |-> {}]

\* sched_setaffinity(0, sizeof(cpu_set_t), &mask): the kernel intersects the
\* request with the CPUs the process may use and rejects an empty result.
sched_setaffinity(t, set) ==
    LET new == set \cap procCpus
    IN  IF new # {} THEN [ok |-> TRUE, aff |-> new]
        ELSE [ok |-> FALSE, aff |-> thrAff[SchedTarget(t)]]

LinuxGetLoopShort(set) == {i \in set : i < MaskBits - 1 /\ i < CPU_SETSIZE}

\* for (i = 0; i < 64 && i < CPU_SETSIZE; i++) if (CPU_ISSET(i)) result |= 1ULL << i
LinuxGetLoop(set) == {i \in set : i < MaskBits /\ i < CPU_SETSIZE}

LinuxGetAffinityMask(t) ==
    LET r == sched_getaffinity(t)
    IN  IF r.ok THEN LinuxGetLoop(r.set) ELSE {}

LinuxCpuSetShifted(mask_val) == {i - 1 : i \in {j \in mask_val : j > 0 /\ j < MaskBits}}

\* CPU_ZERO; for (i = 0; i < 64; i++) if ((mask_val >> i) & 1) CPU_SET(i)
LinuxCpuSet(mask_val) == {i \in mask_val : i < MaskBits}

LinuxSetAffinityMaskStrict(t, mask_val) ==
    IF mask_val \subseteq Online
    THEN sched_setaffinity(t, LinuxCpuSet(mask_val))
    ELSE [ok |-> FALSE, aff |-> thrAff[SchedTarget(t)]]

LinuxSetAffinityMask(t, mask_val) == sched_setaffinity(t, LinuxCpuSet(mask_val))

(* --------------------------------------------------------- macOS backend *)

\* sysctlbyname("hw.logicalcpu", &count, ...)
SysctlLogicalCpu == [ok |-> TRUE, count |-> ncpu]

MacCapacityWrap(count) ==
    IF count > MaskBits THEN BitIdx
    ELSE IF count = MaskBits THEN {}
    ELSE 0 .. (count - 1)

MacCapacityWide(count) ==
    IF count >= MaskBits THEN BitIdx ELSE 0 .. count

\* count >= 64 ? 0xFFFFFFFFFFFFFFFF : (1ULL << count) - 1
MacCapacity(count) ==
    IF count >= MaskBits THEN BitIdx ELSE 0 .. (count - 1)

MacGetAffinityMask ==
    LET r == SysctlLogicalCpu
    IN  IF r.ok THEN MacCapacity(r.count) ELSE {}

\* sysctlbyname("hw.optional.arm64", &is_arm64, ...): the name is unknown to
\* some Intel systems (the call fails) and reads 0 on the others.
SysctlArm64 ==
    IF platform = "mac_arm" THEN {[ok |-> TRUE, is_arm64 |-> 1]}
    ELSE {[ok |-> TRUE, is_arm64 |-> 0], [ok |-> FALSE, is_arm64 |-> 0]}

IsAppleSiliconNever(s) == FALSE

\* sysctlbyname(...) == 0 && is_arm64
IsAppleSilicon(s) == s.ok /\ s.is_arm64 # 0

\* The set bits of mask the loop has still to visit when it stands at index i.
BitsFrom(mask, i) == {j \in mask : i <= j /\ j < MaskBits}

\* The first set bit an upward scan meets.
FirstOf(bits) == CHOOSE j \in bits : \A k \in bits : j <= k

RECURSIVE MacScanAll(_, _)
MacScanAll(mask, i) ==
    IF BitsFrom(mask, i) = {} THEN [ok |-> FALSE, tags |-> <<>>]
    ELSE LET j == FirstOf(BitsFrom(mask, i))
         IN  [ok |-> TRUE, tags |-> <<j>> \o MacScanAll(mask, j + 1).tags]

MacScanTrue(mask, i) ==
    IF BitsFrom(mask, i) = {} THEN [ok |-> TRUE, tags |-> <<>>]
    ELSE [ok |-> TRUE, tags |-> <<FirstOf(BitsFrom(mask, i))>>]

\* for (i = 0; i < 64; i++) if ((mask >> i) & 1) { thread_policy_set(tag i);
\* return true; }  return false;
\* The scan from index i stops at the first set bit at or after i, if any.
MacScan(mask, i) ==
    IF BitsFrom(mask, i) = {} THEN [ok |-> FALSE, tags |-> <<>>]
    ELSE [ok |-> TRUE, tags |-> <<FirstOf(BitsFrom(mask, i))>>]

\* The tags of the thread-affinity-policy requests one call issues, and its
\* return value; s is the outcome of the hw.optional.arm64 query.
MacSetAffinityMask(mask, s) ==
    IF IsAppleSilicon(s) THEN [ok |-> TRUE, tags |-> <<>>]
    ELSE MacScan(mask, 0)

\* thread_policy_set(..., THREAD_AFFINITY_POLICY, ...): the tag of the thread
\* after the requests, each of which the kernel applied (TRUE) or refused.
RECURSIVE ApplyPolicy(_, _, _)
ApplyPolicy(tag, tags, kern) ==
    IF tags = <<>> THEN tag
    ELSE ApplyPolicy(IF Head(kern) THEN Head(tags) ELSE tag, Tail(tags), Tail(kern))

(* ------------------------------------------------------ fallback backend *)

OtherGetAffinityMask == {}

OtherSetAffinityMask(mask) == FALSE

(* -------------------------------------------------------------- dispatch *)

\* What moonbit_get_affinity_mask() returns to thread t in this state.
QueryResult(t) ==
    CASE platform = "windows" -> WinGetAffinityMask
      [] platform = "linux" -> LinuxGetAffinityMask(t)
      [] platform \in {"mac_intel", "mac_arm"} -> MacGetAffinityMask
      [] OTHER -> OtherGetAffinityMask

\* What moonbit_set_affinity_mask(mask) can do for thread t in this state:
\* its return value, the affinity record it leaves the thread with, and the
\* tags of the thread-policy requests it issues.
BindOutcomes(t, mask) ==
    CASE platform = "windows" ->
            LET r == WinSetAffinityMask(t, mask)
            IN  {[ok |-> r.ok, aff |-> r.aff, tags |-> <<>>]}
      [] platform = "linux" ->
            LET r == LinuxSetAffinityMask(t, mask)
            IN  {[ok |-> r.ok, aff |-> r.aff, tags |-> <<>>]}
      [] platform \in {"mac_intel", "mac_arm"} ->
            {LET r == MacSetAffinityMask(mask, s)
             IN  [ok |-> r.ok, aff |-> thrAff[t], tags |-> r.tags] : s \in SysctlArm64}
      [] OTHER ->
            {[ok |-> OtherSetAffinityMask(mask), aff |-> thrAff[t], tags |-> <<>>]}

\* The trace of the calls made, kept for a single-threaded process: the last
\* call of the thread and the one before it.
Called(t, c) ==
    IF threads = {MainThread}
    THEN /\ prev' = [prev EXCEPT ![t] = last[t]]
         /\ last' = [last EXCEPT ![t] = c]
    ELSE UNCHANGED <<last, prev>>

(* ------------------------------------------------------------------ Init *)

\* The process starts with the CPU set its environment gives it (procCpus:
\* the process affinity mask on Windows, the CPUs the kernel lets the process
\* use on Linux) and every thread with the same affinity a0, which a launcher
\* may have narrowed.
InitWith(T) ==
    /\ threads = T
    /\ platform \in Platforms
    /\ ncpu \in NCpuChoices(platform)
    /\ procCpus \in (IF platform \in {"windows", "linux"}
                     THEN CpuSetChoices(Online) ELSE {Online})
    /\ \E a0 \in (IF platform \in {"windows", "linux"}
                  THEN CpuSetChoices(procCpus) ELSE {procCpus}) :
            thrAff = [t \in T |-> a0]
    /\ macTag = [t \in T |-> TagNull]
    /\ last = [t \in T |-> NoCall]
    /\ prev = [t \in T |-> NoCall]
    /\ everBound = FALSE

Init == InitWith({MainThread})

InitConc == InitWith({MainThread, WorkerThread})

(* --------------------------------------------------------------- actions *)

Env == <<platform, ncpu, procCpus, threads>>

Query(t, result) ==
    /\ Called(t, [op |-> "query", arg |-> {}, ok |-> TRUE, mask |-> result, reqs |-> <<>>])
    /\ UNCHANGED <<Env, thrAff, macTag, everBound>>

Bound(t, mask, ok, reqs) ==
    /\ Called(t, [op |-> "bind", arg |-> mask, ok |-> ok, mask |-> {}, reqs |-> reqs])
    /\ everBound' = TRUE
    /\ UNCHANGED Env

WinGetBy(t) ==
    /\ platform = "windows"
    /\ Query(t, WinGetAffinityMask)

LinuxGetBy(t) ==
    /\ platform = "linux"
    /\ Query(t, LinuxGetAffinityMask(t))

MacGetBy(t) ==
    /\ platform \in {"mac_intel", "mac_arm"}
    /\ Query(t, MacGetAffinityMask)

OtherGetBy(t) ==
    /\ platform = "other"
    /\ Query(t, OtherGetAffinityMask)

WinSetBy(t, mask) ==
    /\ platform = "windows"
    /\ LET r == WinSetAffinityMask(t, mask)
       IN  /\ thrAff' = [thrAff EXCEPT ![t] = r.aff]
           /\ Bound(t, mask, r.ok, <<>>)
           /\ UNCHANGED macTag

LinuxSetBy(t, mask) ==
    /\ platform = "linux"
    /\ LET r == LinuxSetAffinityMask(t, mask)
       IN  /\ thrAff' = [thrAff EXCEPT ![SchedTarget(t)] = r.aff]
           /\ Bound(t, mask, r.ok, <<>>)
           /\ UNCHANGED macTag

MacSetBy(t, mask) ==
    /\ platform \in {"mac_intel", "mac_arm"}
    /\ \E s \in SysctlArm64 :
         LET r == MacSetAffinityMask(mask, s)
         IN  \E kern \in [1 .. Len(r.tags) -> BOOLEAN] :
               /\ platform = "mac_arm" => \A k \in 1 .. Len(r.tags) : ~kern[k]
               /\ macTag' = [macTag EXCEPT ![t] = ApplyPolicy(macTag[t], r.tags, kern)]
               /\ Bound(t, mask, r.ok, [k \in 1 .. Len(r.tags) |->
                                          [tag |-> r.tags[k], kern |-> kern[k]]])
               /\ UNCHANGED thrAff

OtherSetBy(t, mask) ==
    /\ platform = "other"
    /\ Bound(t, mask, OtherSetAffinityMask(mask), <<>>)
    /\ UNCHANGED <<thrAff, macTag>>

WinGet == \E t \in threads : WinGetBy(t)

LinuxGet == \E t \in threads : LinuxGetBy(t)

MacGet == \E t \in threads : MacGetBy(t)

OtherGet == \E t \in threads : OtherGetBy(t)

WinSet == \E t \in threads, mask \in InputMasks : WinSetBy(t, mask)

LinuxSet == \E t \in threads, mask \in InputMasks : LinuxSetBy(t, mask)

MacSet == \E t \in threads, mask \in InputMasks : MacSetBy(t, mask)

OtherSet == \E t \in threads, mask \in InputMasks : OtherSetBy(t, mask)

Next ==
    \/ WinGet
    \/ LinuxGet
    \/ MacGet
    \/ OtherGet
    \/ WinSet
    \/ LinuxSet
    \/ MacSet
    \/ OtherSet

Spec == Init /\ [][Next]_vars

SpecConc == InitConc /\ [][Next]_vars

(* ---------------------------------------------------------------- claims *)

\* Bits of a mask that name an existing CPU.
InRange(mask) == {i \in mask : i < ncpu}

\* Thread t made a bind call and then, as its next call, a query.
BindThenQuery(t) == prev[t].op = "bind" /\ last[t].op = "query"

\* C1 as stated: on Linux and Windows, for a mask m with a bit below the CPU
\* count, bind_affinity(m) followed by query_affinity() on the same thread
\* yields a subset of m restricted to the CPU count.
C1_Stated ==
    \A t \in threads :
        (/\ platform \in {"linux", "windows"}
         /\ BindThenQuery(t)
         /\ InRange(prev[t].arg) # {})
        => last[t].mask \subseteq InRange(prev[t].arg)

\* C1 amended: on Linux, for a mask m with a bit below the CPU count, when
\* bind_affinity(m) returns true the query that follows it on the same thread
\* yields a subset of m restricted to the CPU count.
C1_BindThenQuerySubset ==
    \A t \in threads :
        (/\ platform = "linux"
         /\ BindThenQuery(t)
         /\ InRange(prev[t].arg) # {}
         /\ prev[t].ok)
        => last[t].mask \subseteq InRange(prev[t].arg)

C1_Witness ==
    /\ platform = "linux"
    /\ BindThenQuery(MainThread)
    /\ prev[MainThread].ok
    /\ ~(prev[MainThread].arg \subseteq Online)
    /\ last[MainThread].mask # {}
    /\ last[MainThread].mask # prev[MainThread].arg

\* C2: bind_affinity(0) returns false on Linux, Windows and Intel macOS and
\* true on Apple Silicon; where it returns false the call leaves the
\* thread's affinity records as they were.
C2_EmptyMask ==
    [][\A t \in threads :
          (\/ WinSetBy(t, {}) \/ LinuxSetBy(t, {})
           \/ MacSetBy(t, {}) \/ OtherSetBy(t, {}))
          => /\ platform \in {"linux", "windows", "mac_intel"} => ~last'[t].ok
             /\ platform = "mac_arm" => last'[t].ok
             /\ ~last'[t].ok => thrAff' = thrAff /\ macTag' = macTag]_vars

C2_Witness ==
    /\ platform = "linux"
    /\ last[MainThread].op = "bind"
    /\ last[MainThread].arg = {}
    /\ ~last[MainThread].ok
    /\ prev[MainThread].op = "bind"
    /\ prev[MainThread].ok

BindStep(t, mask) ==
    \/ WinSetBy(t, mask)
    \/ LinuxSetBy(t, mask)
    \/ MacSetBy(t, mask)
    \/ OtherSetBy(t, mask)

\* The tags of the thread-policy requests a recorded call issued.
TagsOf(c) == [k \in 1 .. Len(c.reqs) |-> c.reqs[k].tag]

\* A call bind_affinity(m) by thread t returns, and does to the thread,
\* what bind_affinity(m with the bits at or above the CPU count cleared)
\* could have returned and done in its place; and it refuses a mask that
\* names no existing CPU.
IgnoresHighBits(t, m) ==
    BindStep(t, m)
    => /\ \E o \in BindOutcomes(t, InRange(m)) :
            /\ o.ok = last'[t].ok
            /\ o.aff = thrAff'[t]
            /\ o.tags = TagsOf(last'[t])
       /\ InRange(m) = {} => ~last'[t].ok

\* C4 as stated: on every backend bind_affinity ignores the bits of its mask
\* at or above the CPU count.
C4_Stated ==
    [][\A t \in threads, m \in InputMasks : IgnoresHighBits(t, m)]_vars

\* C4 amended: on the Linux backend and on the unsupported backend
\* bind_affinity ignores the bits of its mask at or above the CPU count.
C4_HighBitsIgnored ==
    [][\A t \in threads, m \in InputMasks :
          platform \in {"linux", "other"} => IgnoresHighBits(t, m)]_vars

C4_Witness ==
    /\ platform = "linux"
    /\ last[MainThread].op = "bind"
    /\ last[MainThread].ok
    /\ ~(last[MainThread].arg \subseteq Online)
    /\ thrAff[MainThread] = InRange(last[MainThread].arg)
    /\ prev[MainThread].op = "query"
    /\ prev[MainThread].mask # thrAff[MainThread]

\* C5: a mask query_affinity() returns has no bit at or above
\* min(64, CPU count).
C5_QueryInRange ==
    \A t \in threads :
        last[t].op = "query"
        => \A i \in last[t].mask : i < MaskBits /\ i < ncpu

C5_Witness ==
    /\ platform = "linux"
    /\ ncpu = MaskBits + 1
    /\ MaskBits \in thrAff[MainThread]
    /\ last[MainThread].op = "query"
    /\ last[MainThread].mask = {MaskBits - 1}

\* C6: two bind_affinity(m) calls in succession on one thread return the
\* same boolean.
C6_BindTwice ==
    \A t \in threads :
        (/\ prev[t].op = "bind"
         /\ last[t].op = "bind"
         /\ prev[t].arg = last[t].arg)
        => prev[t].ok = last[t].ok

C6_Witness ==
    /\ platform = "windows"
    /\ prev[MainThread].op = "bind"
    /\ last[MainThread].op = "bind"
    /\ prev[MainThread].arg = last[MainThread].arg
    /\ last[MainThread].ok
    /\ thrAff[MainThread] # procCpus

\* The mask with one bit per logical CPU, as far as 64 bits go.
FullCapacity == {i \in BitIdx : i < ncpu}

\* C7: on Apple Silicon every bind_affinity returns true and issues no
\* thread-policy request, and query_affinity() keeps returning the full
\* capacity mask.
C7_AppleSilicon ==
    platform = "mac_arm"
    => \A t \in threads :
         /\ last[t].op = "bind" => last[t].ok /\ last[t].reqs = <<>>
         /\ prev[t].op = "bind" => prev[t].ok /\ prev[t].reqs = <<>>
         /\ last[t].op = "query" => last[t].mask = FullCapacity
         /\ QueryResult(t) = FullCapacity
         /\ macTag[t] = TagNull

C7_Witness ==
    /\ platform = "mac_arm"
    /\ ncpu = MaxCpu
    /\ prev[MainThread].op = "bind"
    /\ prev[MainThread].arg = {0}
    /\ prev[MainThread].ok
    /\ last[MainThread].op = "query"
    /\ last[MainThread].mask = 0 .. (MaxCpu - 1)

\* Thread t makes a bind_affinity call in this step.
BindBy(t) == \E mask \in InputMasks : BindStep(t, mask)

\* C8: a bind_affinity call by one thread changes neither another thread's
\* affinity records, nor what that thread's query_affinity() would return,
\* nor what its bind_affinity(m) would return and do, for any m.
C8_NoInterference ==
    [][\A t \in threads :
          BindBy(t)
          => \A u \in threads \ {t} :
               /\ thrAff'[u] = thrAff[u]
               /\ macTag'[u] = macTag[u]
               /\ QueryResult(u)' = QueryResult(u)
               /\ \A m \in InputMasks : BindOutcomes(u, m)' = BindOutcomes(u, m)]_vars

C8_Witness ==
    /\ platform = "linux"
    /\ threads = {MainThread, WorkerThread}
    /\ everBound
    /\ thrAff[WorkerThread] # procCpus
    /\ thrAff[MainThread] \cap thrAff[WorkerThread] = {}
    /\ thrAff[MainThread] # procCpus

\* C9: on Linux, for a non-empty mask m of CPUs the process may use, all
\* below 64, bind_affinity(m) returns true and the thread's next
\* query_affinity() returns exactly m.
C9_LinuxRoundTrip ==
    platform = "linux"
    => \A t \in threads :
         /\ (/\ last[t].op = "bind"
             /\ last[t].arg # {}
             /\ last[t].arg \subseteq procCpus)
            => last[t].ok
         /\ (/\ BindThenQuery(t)
             /\ prev[t].arg # {}
             /\ prev[t].arg \subseteq procCpus)
            => prev[t].ok /\ last[t].mask = prev[t].arg

C9_Witness ==
    /\ platform = "linux"
    /\ ncpu = MaxCpu
    /\ procCpus = Online
    /\ BindThenQuery(MainThread)
    /\ prev[MainThread].arg = {0}
    /\ prev[MainThread].ok
    /\ last[MainThread].mask = {0}

\* The index of the lowest set bit of a non-empty mask: no bit below it is set.
LowestBit(mask) == CHOOSE i \in mask : (0 .. (i - 1)) \cap mask = {}

\* C10: on Intel macOS bind_affinity(m) with m non-empty issues exactly one
\* thread-affinity-policy request, tagged with the lowest set bit of m, and
\* returns true whatever the request's outcome; with m empty it issues no
\* request and returns false.
C10_IntelFirstBit ==
    platform = "mac_intel"
    => \A t \in threads :
         last[t].op = "bind"
         => IF last[t].arg # {}
            THEN /\ Len(last[t].reqs) = 1
                 /\ last[t].reqs[1].tag = LowestBit(last[t].arg)
                 /\ last[t].ok
            ELSE last[t].reqs = <<>> /\ ~last[t].ok

C10_Witness ==
    /\ platform = "mac_intel"
    /\ last[MainThread].op = "bind"
    /\ Cardinality(last[MainThread].arg) > 1
    /\ Len(last[MainThread].reqs) = 1
    /\ ~last[MainThread].reqs[1].kern
    /\ last[MainThread].ok
    /\ prev[MainThread].op = "bind"
    /\ prev[MainThread].arg = {}
    /\ ~prev[MainThread].ok

====
